---- MODULE Spec2Model ----
(***************************************************************************)
(* Mergington High School activities API (src/src/app.py).                 *)
(*                                                                         *)
(* The database file holds two tables, Activity and Enrollment.  A table   *)
(* is a sequence of rows in rowid order, which is the order SQLite scans   *)
(* it in.  A request handler runs one statement that touches the database  *)
(* per step, in a session of its own; between two of its steps the steps   *)
(* of other requests may run.                                              *)
(***************************************************************************)
EXTENDS Integers, Sequences, FiniteSets, Bags, TLC

(***************************************************************************)
(* Bounds of the model.                                                    *)
(***************************************************************************)
\* how many e-mails of EmailPool the requests draw from
NumEmails == 2
\* how many Enrollment rows the requests of one run insert
MaxInserts == 2
\* how many request-handling threads run at once
NumWorkers == 2

(***************************************************************************)
(* Request inputs.                                                         *)
(***************************************************************************)
EmailPool ==
    << "alex@mergington.edu", "michael@mergington.edu", "sam@mergington.edu",
       "kim@mergington.edu", "lee@mergington.edu" >>

Emails == { EmailPool[i] : i \in 1..NumEmails }

\* two seeded activities and a name that matches no Activity row
ActivityNames == { "Chess Club", "Math Club", "Knitting Club" }

\* what the requests that run concurrently draw from
ConcurrentNames == { "Math Club", "Debate Team", "Knitting Club" }

ConcurrentEmails == { "alex@mergington.edu" }

(***************************************************************************)
(* The seed catalog, in the order the dictionary is iterated.              *)
(***************************************************************************)
seed_data ==
    << [ name |-> "Chess Club",
         description |-> "Learn strategies and compete in chess tournaments",
         schedule |-> "Fridays, 3:30 PM - 5:00 PM",
         max_participants |-> 12,
         participants |-> << "michael@mergington.edu", "daniel@mergington.edu" >> ],
       [ name |-> "Programming Class",
         description |-> "Learn programming fundamentals and build software projects",
         schedule |-> "Tuesdays and Thursdays, 3:30 PM - 4:30 PM",
         max_participants |-> 20,
         participants |-> << "emma@mergington.edu", "sophia@mergington.edu" >> ],
       [ name |-> "Gym Class",
         description |-> "Physical education and sports activities",
         schedule |-> "Mondays, Wednesdays, Fridays, 2:00 PM - 3:00 PM",
         max_participants |-> 30,
         participants |-> << "john@mergington.edu", "olivia@mergington.edu" >> ],
       [ name |-> "Soccer Team",
         description |-> "Join the school soccer team and compete in matches",
         schedule |-> "Tuesdays and Thursdays, 4:00 PM - 5:30 PM",
         max_participants |-> 22,
         participants |-> << "liam@mergington.edu", "noah@mergington.edu" >> ],
       [ name |-> "Basketball Team",
         description |-> "Practice and play basketball with the school team",
         schedule |-> "Wednesdays and Fridays, 3:30 PM - 5:00 PM",
         max_participants |-> 15,
         participants |-> << "ava@mergington.edu", "mia@mergington.edu" >> ],
       [ name |-> "Art Club",
         description |-> "Explore your creativity through painting and drawing",
         schedule |-> "Thursdays, 3:30 PM - 5:00 PM",
         max_participants |-> 15,
         participants |-> << "amelia@mergington.edu", "harper@mergington.edu" >> ],
       [ name |-> "Drama Club",
         description |-> "Act, direct, and produce plays and performances",
         schedule |-> "Mondays and Wednesdays, 4:00 PM - 5:30 PM",
         max_participants |-> 20,
         participants |-> << "ella@mergington.edu", "scarlett@mergington.edu" >> ],
       [ name |-> "Math Club",
         description |-> "Solve challenging problems and participate in math competitions",
         schedule |-> "Tuesdays, 3:30 PM - 4:30 PM",
         max_participants |-> 10,
         participants |-> << "james@mergington.edu", "benjamin@mergington.edu" >> ],
       [ name |-> "Debate Team",
         description |-> "Develop public speaking and argumentation skills",
         schedule |-> "Fridays, 4:00 PM - 5:30 PM",
         max_participants |-> 12,
         participants |-> << "charlotte@mergington.edu", "henry@mergington.edu" >> ] >>


(***************************************************************************)
(* Tables and queries.                                                     *)
(***************************************************************************)
\* the result of .first() on an empty result set
NoRow == [ id |-> 0 ]

\* a database file in which create_all has made two empty tables
EmptyDb == [ activity |-> << >>, enrollment |-> << >> ]

\* the id given to a row inserted with id = None: one more than the
\* largest rowid in the table
NextId(table) ==
    IF table = << >> THEN 1 ELSE table[Len(table)].id + 1

\* .first() of a result set
First(rows) ==
    IF rows = << >> THEN NoRow ELSE rows[1]

\* select(Activity).where(Activity.name == activity_name)
SelectActivityByName(activity, activity_name) ==
    SelectSeq(activity, LAMBDA a : a.name = activity_name)

\* SelectEnrollment with the activity_id condition left out
SelectEnrollmentAnyActivity(enrollment, activity_id, email) ==
    SelectSeq(enrollment, LAMBDA r : r.email = email)

\* select(Enrollment).where(Enrollment.activity_id == id, Enrollment.email == email)
SelectEnrollment(enrollment, activity_id, email) ==
    SelectSeq(enrollment, LAMBDA r : r.activity_id = activity_id /\ r.email = email)

\* select(Enrollment.email).where(Enrollment.activity_id == id)
SelectEmails(enrollment, activity_id) ==
    LET rows == SelectSeq(enrollment, LAMBDA r : r.activity_id = activity_id)
    IN  [ i \in 1..Len(rows) |-> rows[i].email ]

\* session.add(Activity(...)); session.flush(): the flush raises
\* IntegrityError when a row of that name exists (name is unique)
AddActivity(activity, data) ==
    IF SelectActivityByName(activity, data.name) # << >>
    THEN [ raised |-> "IntegrityError", activity |-> activity ]
    ELSE [ raised |-> "none",
           activity |-> Append(activity,
                               [ id |-> NextId(activity),
                                 name |-> data.name,
                                 description |-> data.description,
                                 schedule |-> data.schedule,
                                 max_participants |-> data.max_participants ]) ]

\* session.add(Enrollment(activity_id=..., email=...)), written at commit
AddEnrollment(enrollment, activity_id, email) ==
    Append(enrollment,
           [ id |-> NextId(enrollment), activity_id |-> activity_id, email |-> email ])

\* DeleteEnrollment by the row's e-mail instead of its id
DeleteEnrollmentByEmail(enrollment, row) ==
    SelectSeq(enrollment, LAMBDA r : r.email # row.email)

\* session.delete(enrollment), written at commit: the row with that id
\* goes; a DELETE that matches no row is not an error
DeleteEnrollment(enrollment, row) ==
    SelectSeq(enrollment, LAMBDA r : r.id # row.id)

(***************************************************************************)
(* Seeding.  The result is the store and the exception raised, if any.     *)
(***************************************************************************)
RECURSIVE AddParticipants(_, _, _, _)
\* for email in data["participants"]: session.add(Enrollment(...))
AddParticipants(enrollment, activity_id, participants, i) ==
    IF i > Len(participants) THEN enrollment
    ELSE AddParticipants(AddEnrollment(enrollment, activity_id, participants[i]),
                         activity_id, participants, i + 1)

RECURSIVE SeedFrom(_, _)
\* for name, data in seed_data.items(): ...; session.commit()
SeedFrom(d, k) ==
    IF k > Len(seed_data) THEN [ raised |-> "none", db |-> d ]
    ELSE LET added == AddActivity(d.activity, seed_data[k])
             act   == added.activity[Len(added.activity)]
         IN  IF added.raised # "none"
             THEN [ raised |-> added.raised, db |-> d ]
             ELSE SeedFrom([ activity |-> added.activity,
                             enrollment |-> AddParticipants(d.enrollment, act.id,
                                                            seed_data[k].participants, 1) ],
                           k + 1)

\* init_db_and_seed without the early return
seed_always(d) ==
    LET seeded == SeedFrom(d, 1)
    IN  IF seeded.raised = "none" THEN seeded ELSE [ raised |-> seeded.raised, db |-> d ]

\* an exception leaves the with-block before the commit: nothing is written
init_db_and_seed(d) ==
    LET existing == First(d.activity)
    IN  IF existing # NoRow
        THEN [ raised |-> "none", db |-> d ]
        ELSE LET seeded == SeedFrom(d, 1)
             IN  IF seeded.raised = "none" THEN seeded
                 ELSE [ raised |-> seeded.raised, db |-> d ]

(***************************************************************************)
(* Request handlers.  A handler takes the database and its session (where  *)
(* it stands and its local variables) and runs its next statement; the     *)
(* result is the database and the session after it.                        *)
(***************************************************************************)
\* a request that has arrived and run no statement yet
Request(op, activity_name, email) ==
    [ pc |-> "start", op |-> op, activity_name |-> activity_name, email |-> email ]

\* the handler has returned or raised: the response
Done(s, status_code, body) ==
    [ pc |-> "done", op |-> s.op, activity_name |-> s.activity_name, email |-> s.email,
      status |-> status_code, body |-> body ]

HTTPException(s, status_code, detail) ==
    Done(s, status_code, [ detail |-> detail ])

\* RedirectResponse(url=...), whose default status code is 307
root(d, s) ==
    [ db |-> d, session |-> Done(s, 307, [ url |-> "/static/index.html" ]) ]

\* line 134: results = session.exec(select(Activity)).all()
list_select_activities(d, s) ==
    [ db |-> d,
      session |-> IF d.activity = << >>
                  THEN Done(s, 200, << >>)
                  ELSE [ pc |-> "select_emails", op |-> s.op,
                         activity_name |-> s.activity_name, email |-> s.email,
                         results |-> d.activity, k |-> 1, activities_out |-> << >> ] ]

\* lines 135-143: one turn of the loop, and the return after the last
list_select_emails(d, s) ==
    LET act    == s.results[s.k]
        emails == SelectEmails(d.enrollment, act.id)
        entry  == [ description |-> act.description,
                    schedule |-> act.schedule,
                    max_participants |-> act.max_participants,
                    participants |-> emails ]
        out    == [ n \in DOMAIN s.activities_out \cup { act.name } |->
                      IF n = act.name THEN entry ELSE s.activities_out[n] ]
    IN  [ db |-> d,
          session |-> IF s.k = Len(s.results)
                      THEN Done(s, 200, out)
                      ELSE [ s EXCEPT !.k = s.k + 1, !.activities_out = out ] ]

get_activities(d, s) ==
    IF s.pc = "start" THEN list_select_activities(d, s) ELSE list_select_emails(d, s)

\* lines 148-150
signup_select_activity(d, s) ==
    LET activity == First(SelectActivityByName(d.activity, s.activity_name))
    IN  [ db |-> d,
          session |-> IF activity = NoRow
                      THEN HTTPException(s, 404, "Activity not found")
                      ELSE [ pc |-> "select_enrollment", op |-> s.op,
                             activity_name |-> s.activity_name, email |-> s.email,
                             activity |-> activity ] ]

\* signup_select_enrollment without the look-up
signup_without_check(d, s) ==
    [ db |-> d, session |-> [ s EXCEPT !.pc = "commit" ] ]

\* signup_select_enrollment reporting a duplicate as 409
signup_conflict_409(d, s) ==
    LET already == First(SelectEnrollment(d.enrollment, s.activity.id, s.email))
    IN  [ db |-> d,
          session |-> IF already # NoRow
                      THEN HTTPException(s, 409, "Student is already signed up")
                      ELSE [ s EXCEPT !.pc = "commit" ] ]

\* signup_select_enrollment followed by a capacity check
signup_with_capacity(d, s) ==
    LET already == First(SelectEnrollment(d.enrollment, s.activity.id, s.email))
    IN  [ db |-> d,
          session |-> IF already # NoRow
                      THEN HTTPException(s, 400, "Student is already signed up")
                      ELSE IF Len(SelectEmails(d.enrollment, s.activity.id))
                                >= s.activity.max_participants
                      THEN HTTPException(s, 400, "Activity is full")
                      ELSE [ s EXCEPT !.pc = "commit" ] ]

\* lines 151-153
signup_select_enrollment(d, s) ==
    LET already == First(SelectEnrollment(d.enrollment, s.activity.id, s.email))
    IN  [ db |-> d,
          session |-> IF already # NoRow
                      THEN HTTPException(s, 400, "Student is already signed up")
                      ELSE [ s EXCEPT !.pc = "commit" ] ]

\* signup_commit without session.commit(): the insert is rolled back
signup_without_commit(d, s) ==
    [ db |-> d,
      session |-> Done(s, 200, [ message |-> "Signed up " \o s.email \o " for " \o s.activity_name ]) ]

\* signup_commit under a unique constraint on (activity_id, email): the
\* insert of a second row for the pair fails
signup_commit_unique(d, s) ==
    IF SelectEnrollment(d.enrollment, s.activity.id, s.email) # << >>
    THEN [ db |-> d, session |-> HTTPException(s, 400, "Student is already signed up") ]
    ELSE [ db |-> [ d EXCEPT !.enrollment = AddEnrollment(d.enrollment, s.activity.id, s.email) ],
           session |-> Done(s, 200, [ message |-> "Signed up " \o s.email \o " for " \o s.activity_name ]) ]

\* lines 154-157
signup_commit(d, s) ==
    [ db |-> [ d EXCEPT !.enrollment = AddEnrollment(d.enrollment, s.activity.id, s.email) ],
      session |-> Done(s, 200, [ message |-> "Signed up " \o s.email \o " for " \o s.activity_name ]) ]

signup_for_activity(d, s) ==
    CASE s.pc = "start" -> signup_select_activity(d, s)
      [] s.pc = "select_enrollment" -> signup_select_enrollment(d, s)
      [] s.pc = "commit" -> signup_commit(d, s)

\* unregister_select_activity reporting an unknown activity as a missing enrollment
unregister_unknown_as_400(d, s) ==
    LET activity == First(SelectActivityByName(d.activity, s.activity_name))
    IN  [ db |-> d,
          session |-> IF activity = NoRow
                      THEN HTTPException(s, 400, "Student is not signed up for this activity")
                      ELSE [ pc |-> "select_enrollment", op |-> s.op,
                             activity_name |-> s.activity_name, email |-> s.email,
                             activity |-> activity ] ]

\* lines 162-164
unregister_select_activity(d, s) ==
    LET activity == First(SelectActivityByName(d.activity, s.activity_name))
    IN  [ db |-> d,
          session |-> IF activity = NoRow
                      THEN HTTPException(s, 404, "Activity not found")
                      ELSE [ pc |-> "select_enrollment", op |-> s.op,
                             activity_name |-> s.activity_name, email |-> s.email,
                             activity |-> activity ] ]

\* lines 165-167
unregister_select_enrollment(d, s) ==
    LET enrollment == First(SelectEnrollment(d.enrollment, s.activity.id, s.email))
    IN  [ db |-> d,
          session |-> IF enrollment = NoRow
                      THEN HTTPException(s, 400, "Student is not signed up for this activity")
                      ELSE [ pc |-> "commit", op |-> s.op,
                             activity_name |-> s.activity_name, email |-> s.email,
                             activity |-> s.activity, enrollment |-> enrollment ] ]

\* unregister_commit without session.commit(): the delete is rolled back
unregister_without_commit(d, s) ==
    [ db |-> d,
      session |-> Done(s, 200, [ message |-> "Unregistered " \o s.email \o " from " \o s.activity_name ]) ]

\* lines 168-170
unregister_commit(d, s) ==
    [ db |-> [ d EXCEPT !.enrollment = DeleteEnrollment(d.enrollment, s.enrollment) ],
      session |-> Done(s, 200, [ message |-> "Unregistered " \o s.email \o " from " \o s.activity_name ]) ]

unregister_from_activity(d, s) ==
    CASE s.pc = "start" -> unregister_select_activity(d, s)
      [] s.pc = "select_enrollment" -> unregister_select_enrollment(d, s)
      [] s.pc = "commit" -> unregister_commit(d, s)

\* the routes
Handler(d, s) ==
    CASE s.op = "root" -> root(d, s)
      [] s.op = "get_activities" -> get_activities(d, s)
      [] s.op = "signup" -> signup_for_activity(d, s)
      [] s.op = "unregister" -> unregister_from_activity(d, s)

RECURSIVE Run(_, _)
\* a request served with no other request between its statements
Run(d, s) ==
    IF s.pc = "done" THEN [ db |-> d, session |-> s ]
    ELSE Run(Handler(d, s).db, Handler(d, s).session)

(***************************************************************************)
(* State.                                                                  *)
(***************************************************************************)
VARIABLES
    db,         \* the database file: the Activity and the Enrollment table
    imported,   \* the module has been imported (and so has seeded the file)
    sessions,   \* the bag of the sessions of the requests in flight, one worker thread each
    last,       \* the last completed call: request, response, database before its last statement
    prior,      \* the call completed before the last one, kept while it is a sign-up that returned 200
    inserts     \* how many Enrollment rows requests have inserted so far

vars == << db, imported, sessions, last, prior, inserts >>

NoCall == [ op |-> "none", status |-> 0 ]

Call(s, before) ==
    [ op |-> s.op, activity_name |-> s.activity_name, email |-> s.email,
      status |-> s.status, body |-> s.body, before |-> before ]

\* what prior keeps of the call that was the last one
Keep(call) ==
    IF call.op = "signup" /\ call.status = 200 THEN call ELSE NoCall

\* no request is in flight
Quiet ==
    sessions = EmptyBag

Init ==
    /\ db = EmptyDb
    /\ imported = FALSE
    /\ sessions = EmptyBag
    /\ last = NoCall
    /\ prior = NoCall
    /\ inserts = 0

\* a run of the seeding routine, recorded as a call
Seeding(r) ==
    /\ db' = r.db
    /\ last' = [ op |-> "init_db_and_seed", activity_name |-> "", email |-> "",
                 status |-> 0, body |-> [ raised |-> r.raised ], before |-> db ]
    /\ prior' = Keep(last)
    /\ UNCHANGED << sessions, inserts >>

\* line 123: init_db_and_seed() when the module is imported
ImportModule ==
    /\ ~imported
    /\ imported' = (init_db_and_seed(db).raised = "none")
    /\ Seeding(init_db_and_seed(db))

\* the startup hook: init_db_and_seed() once more, before requests are served
on_startup ==
    /\ imported
    /\ Quiet
    /\ UNCHANGED imported
    /\ Seeding(init_db_and_seed(db))

\* a request has run one statement with result r; others are the sessions
\* of the other requests in flight
Advance(others, r) ==
    /\ Len(r.db.enrollment) > Len(db.enrollment) => inserts < MaxInserts
    /\ inserts' = inserts + (IF Len(r.db.enrollment) > Len(db.enrollment) THEN 1 ELSE 0)
    /\ db' = r.db
    /\ IF r.session.pc = "done"
       THEN /\ sessions' = others
            /\ last' = Call(r.session, db)
            /\ prior' = Keep(last)
       ELSE /\ sessions' = others (+) SetToBag({ r.session })
            /\ UNCHANGED << last, prior >>
    /\ UNCHANGED imported

\* get_session: a request arrives while a worker thread is free, gets a
\* session and runs its first statement
Arrive(op, activity_name, email) ==
    /\ imported
    /\ BagCardinality(sessions) < NumWorkers
    /\ Advance(sessions, Handler(db, Request(op, activity_name, email)))

\* a request in flight runs its next statement
Continue(op) ==
    \E s \in BagToSet(sessions) :
        /\ s.op = op
        /\ Advance(sessions (-) SetToBag({ s }), Handler(db, s))

RootRequest ==
    Arrive("root", "", "")

ListRequest ==
    Arrive("get_activities", "", "")

SignupRequest(names, emails) ==
    \E n \in names, e \in emails : Arrive("signup", n, e)

UnregisterRequest(names, emails) ==
    \E n \in names, e \in emails : Arrive("unregister", n, e)

ListStep ==
    Continue("get_activities")

SignupStep ==
    Continue("signup")

UnregisterStep ==
    Continue("unregister")

(***************************************************************************)
(* Requests served one at a time: a request arrives only when no other is  *)
(* in flight, so each runs to completion before the next starts.           *)
(***************************************************************************)
Next ==
    \/ ImportModule
    \/ on_startup
    \/ Quiet /\ RootRequest
    \/ Quiet /\ ListRequest
    \/ Quiet /\ SignupRequest(ActivityNames, Emails)
    \/ Quiet /\ UnregisterRequest(ActivityNames, Emails)
    \/ ListStep
    \/ SignupStep
    \/ UnregisterStep

Spec == Init /\ [][Next]_vars

(***************************************************************************)
(* Requests served concurrently: each worker thread serves a request in    *)
(* a session of its own; a SELECT runs outside any transaction, and the    *)
(* INSERT or DELETE is written and committed in one step under the file's  *)
(* write lock.                                                             *)
(***************************************************************************)
ConcurrentNext ==
    \/ ImportModule
    \/ RootRequest
    \/ ListRequest
    \/ SignupRequest(ConcurrentNames, ConcurrentEmails)
    \/ UnregisterRequest(ConcurrentNames, ConcurrentEmails)
    \/ ListStep
    \/ SignupStep
    \/ UnregisterStep

ConcurrentSpec == Init /\ [][ConcurrentNext]_vars

(***************************************************************************)
(* A store whose Math Club is full: the seeded store after as many         *)
(* sign-ups of new students as bring Math Club to its max_participants.    *)
(***************************************************************************)
FillPool ==
    << "s01@mergington.edu", "s02@mergington.edu", "s03@mergington.edu",
       "s04@mergington.edu", "s05@mergington.edu", "s06@mergington.edu",
       "s07@mergington.edu", "s08@mergington.edu", "s09@mergington.edu",
       "s10@mergington.edu", "s11@mergington.edu", "s12@mergington.edu" >>

\* the listing a request served alone reports
Listing(d) ==
    Run(d, Request("get_activities", "", "")).session.body

RECURSIVE FillUp(_, _, _)
FillUp(d, activity_name, i) ==
    IF Len(Listing(d)[activity_name].participants) >= Listing(d)[activity_name].max_participants
    THEN d
    ELSE FillUp(Run(d, Request("signup", activity_name, FillPool[i])).db, activity_name, i + 1)

FullInit ==
    /\ db = FillUp(init_db_and_seed(EmptyDb).db, "Math Club", 1)
    /\ imported = TRUE
    /\ sessions = EmptyBag
    /\ last = NoCall
    /\ prior = NoCall
    /\ inserts = 0

FullNext ==
    \/ on_startup
    \/ Quiet /\ RootRequest
    \/ Quiet /\ ListRequest
    \/ Quiet /\ SignupRequest(ActivityNames, Emails)
    \/ Quiet /\ UnregisterRequest(ActivityNames, Emails)
    \/ ListStep
    \/ SignupStep
    \/ UnregisterStep

FullSpec == FullInit /\ [][FullNext]_vars

(***************************************************************************)
(* Vocabulary of the properties.                                           *)
(***************************************************************************)
HasActivity(d, activity_name) ==
    \E i \in DOMAIN d.activity : d.activity[i].name = activity_name

ActivityIdOf(d, activity_name) ==
    d.activity[CHOOSE i \in DOMAIN d.activity : d.activity[i].name = activity_name].id

\* the positions of the Enrollment rows of a pair (activity, email)
RowsFor(d, activity_name, email) ==
    { i \in DOMAIN d.enrollment :
        /\ d.enrollment[i].activity_id = ActivityIdOf(d, activity_name)
        /\ d.enrollment[i].email = email }

RowSet(d) ==
    { d.enrollment[i] : i \in DOMAIN d.enrollment }

\* the participants of an activity as the listing reports them
Participants(d, activity_name) ==
    Listing(d)[activity_name].participants

Occurrences(list, x) ==
    Cardinality({ i \in DOMAIN list : list[i] = x })

Without(list, i) ==
    SubSeq(list, 1, i - 1) \o SubSeq(list, i + 1, Len(list))

OtherNames(d, activity_name) ==
    { d.activity[i].name : i \in DOMAIN d.activity } \ { activity_name }

\* the store the seeding routine makes of an empty one
Seeded == init_db_and_seed(EmptyDb).db

(***************************************************************************)
(* Properties of requests served one at a time (Spec).                     *)
(***************************************************************************)

\* C1: served one at a time, sign-ups and unregisters never leave two
\* Enrollment rows for the same (activity_id, email) pair.
EnrollmentUnique ==
    \A i, j \in DOMAIN db.enrollment :
        ( /\ db.enrollment[i].activity_id = db.enrollment[j].activity_id
          /\ db.enrollment[i].email = db.enrollment[j].email ) => i = j

\* a second sign-up of an enrolled student has just been turned down
DuplicateSignupRefused ==
    /\ last.op = "signup"
    /\ last.status = 400
    /\ Len(db.enrollment) > Len(Seeded.enrollment)
    /\ RowsFor(db, last.activity_name, last.email) # {}

\* C2: a sign-up of an e-mail with no row for an existing activity returns
\* 200, the e-mail is then exactly once among the activity's participants,
\* and nothing else changed: one row was added, every other row, every
\* Activity row and every other activity's participants are as before.
SignupNewEnrolls ==
    ( /\ last.op = "signup"
      /\ HasActivity(last.before, last.activity_name)
      /\ RowsFor(last.before, last.activity_name, last.email) = {} )
    => /\ last.status = 200
       /\ Cardinality(RowsFor(db, last.activity_name, last.email)) = 1
       /\ Occurrences(Participants(db, last.activity_name), last.email) = 1
       /\ db.activity = last.before.activity
       /\ RowSet(last.before) \subseteq RowSet(db)
       /\ Len(db.enrollment) = Len(last.before.enrollment) + 1
       /\ \A r \in RowSet(db) \ RowSet(last.before) :
             /\ r.activity_id = ActivityIdOf(db, last.activity_name)
             /\ r.email = last.email
       /\ \A n \in OtherNames(db, last.activity_name) :
             Participants(db, n) = Participants(last.before, n)

\* a student enrolled in one activity has just signed up for another
SignupNewHappened ==
    /\ last.op = "signup"
    /\ last.status = 200
    /\ RowsFor(last.before, last.activity_name, last.email) = {}
    /\ \E n \in OtherNames(db, last.activity_name) : RowsFor(db, n, last.email) # {}

\* C3: a sign-up of an e-mail that has a row for the activity returns 400,
\* "Student is already signed up", and leaves both tables as they were.
SignupDuplicateRejected ==
    ( /\ last.op = "signup"
      /\ HasActivity(last.before, last.activity_name)
      /\ RowsFor(last.before, last.activity_name, last.email) # {} )
    => /\ last.status = 400
       /\ last.body = [ detail |-> "Student is already signed up" ]
       /\ db = last.before
       /\ Len(Participants(db, last.activity_name))
            = Len(Participants(last.before, last.activity_name))

\* a seeded participant has just tried to sign up again
SignupDuplicateHappened ==
    /\ last.op = "signup"
    /\ HasActivity(last.before, last.activity_name)
    /\ RowsFor(last.before, last.activity_name, last.email) # {}
    /\ last.email = "michael@mergington.edu"

\* C4: for a name that matches no Activity row, sign-up and unregister
\* return 404, "Activity not found", whatever the e-mail's enrollments,
\* and leave both tables as they were.
UnknownActivityNotFound ==
    ( /\ last.op \in { "signup", "unregister" }
      /\ ~HasActivity(last.before, last.activity_name) )
    => /\ last.status = 404
       /\ last.body = [ detail |-> "Activity not found" ]
       /\ db = last.before

\* an unregister from an unknown activity by a student who is enrolled elsewhere
UnknownActivityHappened ==
    /\ last.op = "unregister"
    /\ ~HasActivity(last.before, last.activity_name)
    /\ \E n \in OtherNames(db, last.activity_name) : RowsFor(db, n, last.email) # {}
    /\ prior.op = "signup"

\* C5: an unregister of an e-mail that has a row for an existing activity
\* returns 200 and removes exactly one Enrollment row, a row of that pair;
\* every other Enrollment row and every Activity row is as before.
UnregisterRemovesOneRow ==
    ( /\ last.op = "unregister"
      /\ HasActivity(last.before, last.activity_name)
      /\ RowsFor(last.before, last.activity_name, last.email) # {} )
    => /\ last.status = 200
       /\ db.activity = last.before.activity
       /\ \E i \in RowsFor(last.before, last.activity_name, last.email) :
             db.enrollment = Without(last.before.enrollment, i)

\* a student has just left one activity and is still enrolled in another
UnregisterHappened ==
    /\ last.op = "unregister"
    /\ last.status = 200
    /\ \E n \in OtherNames(db, last.activity_name) : RowsFor(db, n, last.email) # {}

\* C6: an unregister of an e-mail with no row for an existing activity
\* returns 400, "Student is not signed up for this activity", and changes
\* no row, also when the e-mail has rows for other activities.
UnregisterNotEnrolledRejected ==
    ( /\ last.op = "unregister"
      /\ HasActivity(last.before, last.activity_name)
      /\ RowsFor(last.before, last.activity_name, last.email) = {} )
    => /\ last.status = 400
       /\ last.body = [ detail |-> "Student is not signed up for this activity" ]
       /\ db = last.before

\* a student enrolled elsewhere has just tried to leave an activity they are not in
UnregisterNotEnrolledHappened ==
    /\ last.op = "unregister"
    /\ HasActivity(last.before, last.activity_name)
    /\ RowsFor(last.before, last.activity_name, last.email) = {}
    /\ \E n \in OtherNames(db, last.activity_name) : RowsFor(db, n, last.email) # {}

\* C7: a sign-up that returned 200, followed at once by the unregister of
\* the same activity and e-mail, leaves the listing (every activity's
\* participants, in order) as it was before the sign-up.
RoundTripRestoresListing ==
    ( /\ last.op = "unregister"
      /\ prior.op = "signup"
      /\ prior.activity_name = last.activity_name
      /\ prior.email = last.email )
    => /\ last.status = 200
       /\ Listing(db) = Listing(prior.before)

\* such a round trip has happened in an activity that had participants
RoundTripHappened ==
    /\ last.op = "unregister"
    /\ last.status = 200
    /\ prior.op = "signup"
    /\ prior.activity_name = last.activity_name
    /\ prior.email = last.email
    /\ RowsFor(prior.before, prior.activity_name, prior.email) = {}
    /\ Len(Participants(db, last.activity_name)) >= 2

\* C8: init_db_and_seed on a store with Activity rows returns without
\* writing; on an empty store it inserts the 9 activities with 2
\* enrollments each.
SeedingIdempotent ==
    last.op = "init_db_and_seed"
    => /\ last.body.raised = "none"
       /\ IF last.before.activity # << >>
          THEN db = last.before
          ELSE /\ Len(db.activity) = 9
               /\ Len(db.enrollment) = 2 * 9
               /\ \A k \in DOMAIN seed_data :
                     /\ HasActivity(db, seed_data[k].name)
                     /\ Listing(db)[seed_data[k].name] =
                           [ description |-> seed_data[k].description,
                             schedule |-> seed_data[k].schedule,
                             max_participants |-> seed_data[k].max_participants,
                             participants |-> seed_data[k].participants ]

\* the seeding routine has just run on a store that sign-ups had changed
SeededAgainAfterRequests ==
    /\ last.op = "init_db_and_seed"
    /\ last.before.activity # << >>
    /\ RowSet(last.before) # RowSet(Seeded)
    /\ prior.op = "signup"

(***************************************************************************)
(* Property of requests served concurrently (ConcurrentSpec).              *)
(***************************************************************************)

\* C9: a sign-up that has passed its existence check commits its insert
\* and returns 200 whatever other requests committed since the check, so
\* two sign-ups of one pair that both check before either commits both
\* return 200 and leave two rows for the pair.
SignupCheckThenActNotAtomic ==
    [][ \A s \in BagToSet(sessions) :
          ( /\ s.op = "signup"
            /\ s.pc = "commit"
            /\ CopiesIn(s, sessions') < CopiesIn(s, sessions) )
          => /\ last'.op = "signup"
             /\ last'.status = 200
             /\ Cardinality(RowsFor(db', s.activity_name, s.email))
                  = Cardinality(RowsFor(db, s.activity_name, s.email)) + 1
      ]_vars

\* two sign-ups of the same pair have returned 200 one after the other and
\* the pair has two rows
DuplicateEnrollment ==
    /\ last.op = "signup" /\ last.status = 200
    /\ prior.op = "signup"
    /\ prior.activity_name = last.activity_name
    /\ prior.email = last.email
    /\ Cardinality(RowsFor(db, last.activity_name, last.email)) = 2
    /\ Occurrences(Participants(db, last.activity_name), last.email) = 2

(***************************************************************************)
(* Property of a store with a full activity (FullSpec).                    *)
(***************************************************************************)

\* C10: the status of a sign-up is decided by whether the activity exists
\* and whether the e-mail is enrolled, not by max_participants or the
\* number of participants; a sign-up that returns 200 adds a participant,
\* also to an activity that already has max_participants of them.
CapacityNotEnforced ==
    last.op = "signup"
    => /\ last.status =
            IF ~HasActivity(last.before, last.activity_name) THEN 404
            ELSE IF RowsFor(last.before, last.activity_name, last.email) # {} THEN 400
            ELSE 200
       /\ last.status = 200 =>
            Len(Participants(db, last.activity_name))
              = Len(Participants(last.before, last.activity_name)) + 1

\* a sign-up for a full activity has returned 200 and the activity is over capacity
OverCapacity ==
    /\ last.op = "signup"
    /\ last.status = 200
    /\ Len(Participants(last.before, last.activity_name))
         >= Listing(db)[last.activity_name].max_participants
    /\ Len(Participants(db, last.activity_name))
         > Listing(db)[last.activity_name].max_participants

====
